---- MODULE Spec2Model ----
(***************************************************************************)
(* Model of assets/generate_detections.py: the pure helper                 *)
(* normalize_detections and the export run of main().                      *)
(*                                                                         *)
(* Floats are modelled as exact rationals <<num, den>> with den > 0; true  *)
(* division by a positive integer multiplies the denominator.  Optional    *)
(* arrays of sv.Detections (None or an array) are records                  *)
(* [present, val].  The detector, the tracker and the decoder are external *)
(* collaborators: their results are drawn from bounded sets.               *)
(***************************************************************************)
EXTENDS Integers, Sequences, FiniteSets, TLC

\* ------------------------------------------------------------------ bounds

\* Largest number of frames the decoder yields in a run.
MaxFrames == 2
\* Largest number of detections in one detection set.
MaxDet == 2

\* -------------------------------------------------------- program constants

\* `video_info.fps or 30`
DefaultFps == 30
\* `detections.class_id == 0`
PersonClass == 0
\* `frame_idx % 30 == 0`
ProgressEvery == 30

\* ------------------------------------------------------------------ floats

\* x / k for a float x = <<num, den>> and a positive integer k.
TrueDiv(x, k) == <<x[1], x[2] * k>>

\* int -> float
ToFloat(n) == <<n, 1>>

\* Equality and order of floats, by cross-multiplication (denominators > 0).
RatEq(a, b) == a[1] * b[2] = b[1] * a[2]
RatLe(a, b) == a[1] * b[2] <= b[1] * a[2]

\* Python's `a or b` on numbers: a when a is truthy (non-zero), else b.
OrElse(a, b) == IF a # 0 THEN a ELSE b

\* ------------------------------------------------------------ sv.Detections

\* An optional array that is None.
None == [present |-> FALSE, val |-> <<>>]
\* An optional array that is present.
Some(s) == [present |-> TRUE, val |-> s]

\* All sequences over S of length exactly n.
SeqsOfLen(S, n) == [1..n -> S]

\* An optional array of length n over S: None, or any array of that length.
OptArrays(S, n) == {None} \cup {Some(s) : s \in SeqsOfLen(S, n)}

\* len(detections): the number of boxes.
DetLen(d) == Len(d.xyxy)

\* Pixel boxes (x1, y1, x2, y2) the collaborators may report; the second
\* one reaches outside a 10x20 frame, as a motion-predicted box can.
Boxes == {<<1, 2, 9, 18>>, <<-2, 4, 12, 24>>}
Confs == {<<9, 10>>, <<1, 2>>}
Classes == {0, 1}
TrackIds == {0, 7}
Widths == {4, 10}
Heights == {5, 20}

\* Every well-formed detection set of at most MaxDet detections.
DetectionSets ==
  UNION {[xyxy : SeqsOfLen(Boxes, n),
          confidence : OptArrays(Confs, n),
          class_id : OptArrays(Classes, n),
          tracker_id : OptArrays(TrackIds, n)] : n \in 0..MaxDet}

\* ------------------------------------------------------ normalize_detections

\* normalized_xyxy[:, [0, 2]] /= frame_width; normalized_xyxy[:, [1, 3]] /= frame_height
NormalizeBoxSwapped(b, w, h) ==
  <<TrueDiv(ToFloat(b[1]), w), TrueDiv(ToFloat(b[2]), w),
    TrueDiv(ToFloat(b[3]), w), TrueDiv(ToFloat(b[4]), h)>>
NormalizeBox(b, w, h) ==
  <<TrueDiv(ToFloat(b[1]), w), TrueDiv(ToFloat(b[2]), h),
    TrueDiv(ToFloat(b[3]), w), TrueDiv(ToFloat(b[4]), h)>>

\* [1.0] * len(detections)
DefaultConfidence(n) == [i \in 1..n |-> ToFloat(1)]
\* [0] * len(detections)
DefaultClassId(n) == [i \in 1..n |-> 0]
\* list(range(len(detections)))
DefaultTrackerIdFromOne(n) == [i \in 1..n |-> i]
DefaultTrackerId(n) == [i \in 1..n |-> i - 1]

\* array.tolist() if array is not None else default
ListOr(opt, default) == IF opt.present THEN opt.val ELSE default

EmptyResult == [xyxy |-> <<>>, confidence |-> <<>>, class_id |-> <<>>, tracker_id |-> <<>>]

normalize_detections_keep_first(detections, frame_width, frame_height) ==
  IF DetLen(detections) = 0 THEN EmptyResult
  ELSE [xyxy |-> [i \in 1..DetLen(detections) - 1 |->
                    NormalizeBox(detections.xyxy[i], frame_width, frame_height)],
        confidence |-> ListOr(detections.confidence, DefaultConfidence(DetLen(detections))),
        class_id |-> ListOr(detections.class_id, DefaultClassId(DetLen(detections))),
        tracker_id |-> ListOr(detections.tracker_id, DefaultTrackerId(DetLen(detections)))]
normalize_detections(detections, frame_width, frame_height) ==
  IF DetLen(detections) = 0 THEN EmptyResult
  ELSE [xyxy |-> [i \in 1..DetLen(detections) |->
                    NormalizeBox(detections.xyxy[i], frame_width, frame_height)],
        confidence |-> ListOr(detections.confidence, DefaultConfidence(DetLen(detections))),
        class_id |-> ListOr(detections.class_id, DefaultClassId(DetLen(detections))),
        tracker_id |-> ListOr(detections.tracker_id, DefaultTrackerId(DetLen(detections)))]

\* ------------------------------------------------------------------- state

VARIABLES
  pc,               \* position of main()
  video_exists,     \* video_path.exists()
  output_file,      \* what output_path holds
  prior_output,     \* what output_path held before the run
  video_info,       \* sv.VideoInfo.from_video_path(...)
  model_loaded,     \* YOLO(...) and sv.ByteTrack(...) were constructed
  results,          \* the list of frame records
  next_idx,         \* enumerate's counter
  frame_idx,        \* loop variable
  frames_decoded,   \* frames the generator has yielded
  raw,              \* sv.Detections.from_ultralytics(yolo_results[0]) of this frame
  detections,       \* local variable `detections`
  tracker_arg,      \* argument of this frame's tracker.update_with_detections call
  detector_calls,   \* number of model(frame) calls
  tracker_calls,    \* number of tracker.update_with_detections calls
  writes,           \* number of times output_path was opened for writing
  progress_reports, \* number of progress lines printed
  nd_pc,            \* position of a stand-alone normalize_detections call
  nd_in,            \* its detections argument
  nd_w,             \* its frame_width argument
  nd_h,             \* its frame_height argument
  nd_out            \* its return value

runVars == <<pc, video_exists, output_file, prior_output, video_info, model_loaded,
             results, next_idx, frame_idx, frames_decoded, raw, detections,
             tracker_arg, detector_calls, tracker_calls, writes, progress_reports>>
ndVars == <<nd_pc, nd_in, nd_w, nd_h, nd_out>>
vars == <<runVars, ndVars>>

\* A detection set with no detections and no optional arrays.
NoDetections == [xyxy |-> <<>>, confidence |-> None, class_id |-> None, tracker_id |-> None]

\* video_info before it is read.
NoInfo == [width |-> 0, height |-> 0, fps |-> 0, total_frames |-> 0]

\* What the header of the video may report; fps and total_frames are 0
\* (falsy) when the container does not state them.
VideoInfos ==
  {[width |-> 10, height |-> 20, fps |-> f, total_frames |-> t] : f \in {0, 25}, t \in {0, 7}}

\* The output path before the run: no file, or a file with earlier content.
PriorOutputs == {[kind |-> "absent", docs |-> <<>>], [kind |-> "old", docs |-> <<>>]}

\* ------------------------------------------------- stand-alone normalization

InitNormIdle ==
  /\ nd_pc = "idle"
  /\ nd_in = NoDetections
  /\ nd_w = 1
  /\ nd_h = 1
  /\ nd_out = EmptyResult

\* result = normalize_detections(detections, frame_width, frame_height)
NormalizeCall ==
  /\ nd_pc = "call"
  /\ nd_out' = normalize_detections(nd_in, nd_w, nd_h)
  /\ nd_pc' = "returned"
  /\ UNCHANGED <<nd_in, nd_w, nd_h>>
  /\ UNCHANGED runVars

\* ------------------------------------------------------------------ main()

InitRun ==
  /\ pc = "start"
  /\ video_exists \in BOOLEAN
  /\ prior_output \in PriorOutputs
  /\ output_file = prior_output
  /\ video_info = NoInfo
  /\ model_loaded = FALSE
  /\ results = <<>>
  /\ next_idx = 0
  /\ frame_idx = 0
  /\ frames_decoded = 0
  /\ raw = NoDetections
  /\ detections = NoDetections
  /\ tracker_arg = NoDetections
  /\ detector_calls = 0
  /\ tracker_calls = 0
  /\ writes = 0
  /\ progress_reports = 0

\* A call of normalize_detections on its own: any well-formed detection set,
\* any frame size; main() is not running.
InitNorm ==
  /\ nd_pc = "call"
  /\ nd_in \in DetectionSets
  /\ nd_w \in Widths
  /\ nd_h \in Heights
  /\ nd_out = EmptyResult
  /\ pc = "start"
  /\ video_exists = FALSE
  /\ prior_output = [kind |-> "absent", docs |-> <<>>]
  /\ output_file = prior_output
  /\ video_info = NoInfo
  /\ model_loaded = FALSE
  /\ results = <<>>
  /\ next_idx = 0
  /\ frame_idx = 0
  /\ frames_decoded = 0
  /\ raw = NoDetections
  /\ detections = NoDetections
  /\ tracker_arg = NoDetections
  /\ detector_calls = 0
  /\ tracker_calls = 0
  /\ writes = 0
  /\ progress_reports = 0

\* if not video_path.exists(): print(...); return
CheckExistsIgnored ==
  /\ pc = "start"
  /\ pc' = "setup"
  /\ UNCHANGED <<video_exists, output_file, prior_output, video_info, model_loaded,
                 results, next_idx, frame_idx, frames_decoded, raw, detections,
                 tracker_arg, detector_calls, tracker_calls, writes, progress_reports>>
  /\ UNCHANGED ndVars
CheckExists ==
  /\ pc = "start"
  /\ pc' = IF ~video_exists THEN "aborted" ELSE "setup"
  /\ UNCHANGED <<video_exists, output_file, prior_output, video_info, model_loaded,
                 results, next_idx, frame_idx, frames_decoded, raw, detections,
                 tracker_arg, detector_calls, tracker_calls, writes, progress_reports>>
  /\ UNCHANGED ndVars

\* model = YOLO(...); tracker = sv.ByteTrack(...);
\* video_info = sv.VideoInfo.from_video_path(...); results = []
Setup ==
  /\ pc = "setup"
  /\ model_loaded' = TRUE
  /\ video_info' \in VideoInfos
  /\ results' = <<>>
  /\ pc' = "loop"
  /\ UNCHANGED <<video_exists, output_file, prior_output, next_idx, frame_idx,
                 frames_decoded, raw, detections, tracker_arg, detector_calls,
                 tracker_calls, writes, progress_reports>>
  /\ UNCHANGED ndVars

\* for frame_idx, frame in enumerate(sv.get_video_frames_generator(...)): a frame
NextFrame ==
  /\ pc = "loop"
  /\ frames_decoded < MaxFrames
  /\ frame_idx' = next_idx
  /\ next_idx' = next_idx + 1
  /\ frames_decoded' = frames_decoded + 1
  /\ pc' = "frame"
  /\ UNCHANGED <<video_exists, output_file, prior_output, video_info, model_loaded,
                 results, raw, detections, tracker_arg, detector_calls,
                 tracker_calls, writes, progress_reports>>
  /\ UNCHANGED ndVars

\* the generator is exhausted: the loop ends
Exhausted ==
  /\ pc = "loop"
  /\ pc' = "assemble"
  /\ UNCHANGED <<video_exists, output_file, prior_output, video_info, model_loaded,
                 results, next_idx, frame_idx, frames_decoded, raw, detections,
                 tracker_arg, detector_calls, tracker_calls, writes, progress_reports>>
  /\ UNCHANGED ndVars

\* What the detector may report for a frame: boxes, a confidence per box,
\* class ids (or none), and no tracker ids.
DetectorOutputs ==
  UNION {[xyxy : SeqsOfLen(Boxes, n),
          confidence : {Some([i \in 1..n |-> <<9, 10>>])},
          class_id : OptArrays(Classes, n),
          tracker_id : {None}] : n \in 0..MaxDet}

\* yolo_results = model(frame, verbose=False)
\* detections = sv.Detections.from_ultralytics(yolo_results[0])
Detect ==
  /\ pc = "frame"
  /\ \E d \in DetectorOutputs :
       /\ raw' = d
       /\ detections' = d
  /\ detector_calls' = detector_calls + 1
  /\ pc' = "detected"
  /\ UNCHANGED <<video_exists, output_file, prior_output, video_info, model_loaded,
                 results, next_idx, frame_idx, frames_decoded, tracker_arg,
                 tracker_calls, writes, progress_reports>>
  /\ UNCHANGED ndVars

\* The positions, in order, of the elements of s equal to v.
RECURSIVE Positions(_, _, _)
Positions(s, v, i) ==
  IF i > Len(s) THEN <<>>
  ELSE IF s[i] = v THEN <<i>> \o Positions(s, v, i + 1)
  ELSE Positions(s, v, i + 1)

\* arr[idx] for an optional array: None stays None.
TakeOpt(opt, idx) ==
  IF opt.present THEN Some([k \in 1..Len(idx) |-> opt.val[idx[k]]]) ELSE None

\* detections[idx]: the detections at positions idx, every array indexed alike.
Take(d, idx) ==
  [xyxy |-> [k \in 1..Len(idx) |-> d.xyxy[idx[k]]],
   confidence |-> TakeOpt(d.confidence, idx),
   class_id |-> TakeOpt(d.class_id, idx),
   tracker_id |-> TakeOpt(d.tracker_id, idx)]

\* if detections.class_id is not None:
\*     detections = detections[detections.class_id == 0]
PersonFilterNone(d) == d
PersonFilter(d) ==
  IF d.class_id.present
  THEN Take(d, Positions(d.class_id.val, PersonClass, 1))
  ELSE d

FilterPersons ==
  /\ pc = "detected"
  /\ detections' = PersonFilter(detections)
  /\ pc' = "filtered"
  /\ UNCHANGED <<video_exists, output_file, prior_output, video_info, model_loaded,
                 results, next_idx, frame_idx, frames_decoded, raw, tracker_arg,
                 detector_calls, tracker_calls, writes, progress_reports>>
  /\ UNCHANGED ndVars

\* What tracker.update_with_detections may return for d: the first j of the
\* detections it was given (the ones bound to an active track), each with a
\* tracker id.
TrackerOutputs(d) ==
  {[Take(d, [k \in 1..j |-> k]) EXCEPT !.tracker_id = Some([k \in 1..j |-> k])] :
     j \in 0..DetLen(d)}

\* detections = tracker.update_with_detections(detections)
Track ==
  /\ pc = "filtered"
  /\ tracker_arg' = detections
  /\ tracker_calls' = tracker_calls + 1
  /\ detections' \in TrackerOutputs(detections)
  /\ pc' = "tracked"
  /\ UNCHANGED <<video_exists, output_file, prior_output, video_info, model_loaded,
                 results, next_idx, frame_idx, frames_decoded, raw,
                 detector_calls, writes, progress_reports>>
  /\ UNCHANGED ndVars

\* {"frame_index": frame_idx, "timestamp": frame_idx / (video_info.fps or 30),
\*  "detections": normalized}
FrameRecordFromOne(idx, info, normalized) ==
  [frame_index |-> idx + 1,
   timestamp |-> TrueDiv(ToFloat(idx + 1), OrElse(info.fps, DefaultFps)),
   detections |-> normalized]
FrameRecord(idx, info, normalized) ==
  [frame_index |-> idx,
   timestamp |-> TrueDiv(ToFloat(idx), OrElse(info.fps, DefaultFps)),
   detections |-> normalized]

\* output_data = {"video_info": {...}, "model_info": {...}, "frames": results}
OutputDataRawInfo(info, frames) ==
  [video_info |-> [width |-> info.width,
                   height |-> info.height,
                   fps |-> info.fps,
                   total_frames |-> info.total_frames,
                   duration_seconds |->
                     TrueDiv(ToFloat(Len(frames)), OrElse(info.fps, DefaultFps))],
   model_info |-> [model_name |-> "yolo11n",
                   classes_detected |-> <<"person">>,
                   tracking_enabled |-> TRUE],
   frames |-> frames]
OutputDataNoDuration(info, frames) ==
  [video_info |-> [width |-> info.width,
                   height |-> info.height,
                   fps |-> OrElse(info.fps, DefaultFps),
                   total_frames |-> OrElse(info.total_frames, Len(frames))],
   model_info |-> [model_name |-> "yolo11n",
                   classes_detected |-> <<"person">>,
                   tracking_enabled |-> TRUE],
   frames |-> frames]
OutputData(info, frames) ==
  [video_info |-> [width |-> info.width,
                   height |-> info.height,
                   fps |-> OrElse(info.fps, DefaultFps),
                   total_frames |-> OrElse(info.total_frames, Len(frames)),
                   duration_seconds |->
                     TrueDiv(ToFloat(Len(frames)), OrElse(info.fps, DefaultFps))],
   model_info |-> [model_name |-> "yolo11n",
                   classes_detected |-> <<"person">>,
                   tracking_enabled |-> TRUE],
   frames |-> frames]

\* with open(output_path, "w") as f: json.dump(output_data, f, indent=2)
Written(doc) == [kind |-> "document", docs |-> <<doc>>]

\* normalized = normalize_detections(detections, video_info.width, video_info.height)
\* results.append({...})
AppendRecordAndSave ==
  /\ pc = "tracked"
  /\ results' = Append(results,
       FrameRecord(frame_idx, video_info,
         normalize_detections(detections, video_info.width, video_info.height)))
  /\ output_file' = Written(OutputData(video_info, results'))
  /\ writes' = writes + 1
  /\ pc' = "progress"
  /\ UNCHANGED <<video_exists, prior_output, video_info, model_loaded,
                 next_idx, frame_idx, frames_decoded, raw, detections, tracker_arg,
                 detector_calls, tracker_calls, progress_reports>>
  /\ UNCHANGED ndVars
AppendRecord ==
  /\ pc = "tracked"
  /\ results' = Append(results,
       FrameRecord(frame_idx, video_info,
         normalize_detections(detections, video_info.width, video_info.height)))
  /\ pc' = "progress"
  /\ UNCHANGED <<video_exists, output_file, prior_output, video_info, model_loaded,
                 next_idx, frame_idx, frames_decoded, raw, detections, tracker_arg,
                 detector_calls, tracker_calls, writes, progress_reports>>
  /\ UNCHANGED ndVars

\* if frame_idx % 30 == 0: print(...); then the next iteration, where the
\* detector's result of this frame and the tracker's argument are gone
Progress ==
  /\ pc = "progress"
  /\ progress_reports' =
       IF frame_idx % ProgressEvery = 0 THEN progress_reports + 1 ELSE progress_reports
  /\ raw' = NoDetections
  /\ tracker_arg' = NoDetections
  /\ pc' = "loop"
  /\ UNCHANGED <<video_exists, output_file, prior_output, video_info, model_loaded,
                 results, next_idx, frame_idx, frames_decoded, detections,
                 detector_calls, tracker_calls, writes>>
  /\ UNCHANGED ndVars

\* An exception of the decoder (at the loop head), the detector (on a frame)
\* or the tracker (on the filtered detections): nothing catches it.
Raise ==
  /\ pc \in {"loop", "frame", "filtered"}
  /\ pc' = "failed"
  /\ UNCHANGED <<video_exists, output_file, prior_output, video_info, model_loaded,
                 results, next_idx, frame_idx, frames_decoded, raw, detections,
                 tracker_arg, detector_calls, tracker_calls, writes, progress_reports>>
  /\ UNCHANGED ndVars

\* output_data = {...}; with open(output_path, "w") as f: json.dump(...)
Save ==
  /\ pc = "assemble"
  /\ output_file' = Written(OutputData(video_info, results))
  /\ writes' = writes + 1
  /\ pc' = "done"
  /\ UNCHANGED <<video_exists, prior_output, video_info, model_loaded, results,
                 next_idx, frame_idx, frames_decoded, raw, detections, tracker_arg,
                 detector_calls, tracker_calls, progress_reports>>
  /\ UNCHANGED ndVars

\* ----------------------------------------------------------- specifications

Init == InitRun /\ InitNormIdle

Next ==
  \/ CheckExists
  \/ Setup
  \/ NextFrame
  \/ Exhausted
  \/ Detect
  \/ FilterPersons
  \/ Track
  \/ AppendRecord
  \/ Progress
  \/ Raise
  \/ Save

\* The export run.
Spec == Init /\ [][Next]_vars

\* normalize_detections on its own, over every well-formed input.
SpecNorm == InitNorm /\ [][NormalizeCall]_vars

\* ------------------------------------------------------------------ claims

\* The document the run saved (read only where pc = "done").
SavedDoc == output_file.docs[1]

\* The fps the run divides by.
EffectiveFps == IF video_info.fps = 0 THEN 30 ELSE video_info.fps

\* C1: after the run completes on a video of K decoded frames, the saved
\* document has exactly K frame records, the i-th (0-based) has
\* frame_index = i, and its timestamp is frame_index / fps, fps being the
\* source fps, or 30 when the source reports none.
C1_FramesIndexed ==
  pc = "done" =>
    /\ Len(SavedDoc.frames) = frames_decoded
    /\ \A i \in 1..Len(SavedDoc.frames) :
         /\ SavedDoc.frames[i].frame_index = i - 1
         /\ RatEq(SavedDoc.frames[i].timestamp, <<i - 1, EffectiveFps>>)

C1_Witness ==
  /\ pc = "done"
  /\ frames_decoded = 2
  /\ video_info.fps = 0
  /\ Len(SavedDoc.frames) = 2

\* C2: when the video file does not exist the run stops at the existence
\* check: the model and tracker are never constructed, no frame is decoded, the
\* detector and the tracker are never called, and the output path holds what
\* it held before the run.
C2_MissingVideoAborts ==
  ~video_exists =>
    /\ pc \in {"start", "aborted"}
    /\ ~model_loaded
    /\ frames_decoded = 0
    /\ detector_calls = 0
    /\ tracker_calls = 0
    /\ writes = 0
    /\ output_file = prior_output

C2_Witness ==
  /\ ~video_exists
  /\ pc = "aborted"
  /\ prior_output.kind = "old"
  /\ output_file.kind = "old"

\* C3: for N > 0 boxes and positive W, H, the returned xyxy has N boxes in
\* the input order, box i being (x1 / W, y1 / H, x2 / W, y2 / H) of input
\* box i.
C3_BoxesScaled ==
  (nd_pc = "returned" /\ DetLen(nd_in) > 0) =>
    /\ Len(nd_out.xyxy) = DetLen(nd_in)
    /\ \A i \in 1..DetLen(nd_in) :
         /\ RatEq(nd_out.xyxy[i][1], <<nd_in.xyxy[i][1], nd_w>>)
         /\ RatEq(nd_out.xyxy[i][2], <<nd_in.xyxy[i][2], nd_h>>)
         /\ RatEq(nd_out.xyxy[i][3], <<nd_in.xyxy[i][3], nd_w>>)
         /\ RatEq(nd_out.xyxy[i][4], <<nd_in.xyxy[i][4], nd_h>>)

C3_Witness ==
  /\ nd_pc = "returned"
  /\ DetLen(nd_in) = 2
  /\ nd_in.xyxy[1] # nd_in.xyxy[2]
  /\ nd_w = 4
  /\ nd_h = 5
  /\ Len(nd_out.xyxy) = 2

\* C4: for N > 0, each of confidence, class_id and tracker_id is, on its own,
\* passed through unchanged when present, and synthesized when absent: N
\* ones, N zeros, and 0..N-1 in order.
C4_OptionalFields ==
  (nd_pc = "returned" /\ DetLen(nd_in) > 0) =>
    /\ nd_in.confidence.present => nd_out.confidence = nd_in.confidence.val
    /\ ~nd_in.confidence.present =>
         /\ Len(nd_out.confidence) = DetLen(nd_in)
         /\ \A i \in 1..DetLen(nd_in) : RatEq(nd_out.confidence[i], <<1, 1>>)
    /\ nd_in.class_id.present => nd_out.class_id = nd_in.class_id.val
    /\ ~nd_in.class_id.present =>
         /\ Len(nd_out.class_id) = DetLen(nd_in)
         /\ \A i \in 1..DetLen(nd_in) : nd_out.class_id[i] = 0
    /\ nd_in.tracker_id.present => nd_out.tracker_id = nd_in.tracker_id.val
    /\ ~nd_in.tracker_id.present =>
         /\ Len(nd_out.tracker_id) = DetLen(nd_in)
         /\ \A i \in 1..DetLen(nd_in) : nd_out.tracker_id[i] = i - 1

C4_Witness ==
  /\ nd_pc = "returned"
  /\ DetLen(nd_in) = 2
  /\ ~nd_in.confidence.present
  /\ nd_in.class_id.present
  /\ nd_in.class_id.val = <<1, 0>>
  /\ ~nd_in.tracker_id.present
  /\ nd_out.tracker_id = <<0, 1>>
  /\ nd_out.class_id = <<1, 0>>

C6_InfoDefaults ==
  pc = "done" =>
    /\ SavedDoc.video_info.fps = (IF video_info.fps = 0 THEN 30 ELSE video_info.fps)
    /\ SavedDoc.video_info.total_frames =
         (IF video_info.total_frames = 0 THEN Len(SavedDoc.frames)
          ELSE video_info.total_frames)

C6_Witness ==
  /\ pc = "done"
  /\ video_info.fps = 0
  /\ video_info.total_frames = 0
  /\ Len(SavedDoc.frames) = 2
  /\ SavedDoc.video_info.total_frames = 2

\* Every coordinate of every box of every frame record of doc is in [0, 1].
AllInUnitInterval(doc) ==
  \A i \in 1..Len(doc.frames) :
    \A k \in 1..Len(doc.frames[i].detections.xyxy) :
      \A c \in 1..4 :
        /\ RatLe(<<0, 1>>, doc.frames[i].detections.xyxy[k][c])
        /\ RatLe(doc.frames[i].detections.xyxy[k][c], <<1, 1>>)

\* C7: every coordinate of every box in the xyxy sequence of every frame
\* record of the saved document lies in the closed interval [0, 1].
C7_UnitInterval == pc = "done" => AllInUnitInterval(SavedDoc)

\* The parts of the schema the code and the data model agree on.
SchemaOutsideVideoInfo(doc) ==
  /\ DOMAIN doc = {"video_info", "model_info", "frames"}
  /\ DOMAIN doc.model_info = {"model_name", "classes_detected", "tracking_enabled"}
  /\ \A i \in 1..Len(doc.frames) :
       DOMAIN doc.frames[i] = {"frame_index", "timestamp", "detections"}

\* C8 as stated: the saved document has exactly the top-level keys
\* video_info, model_info and frames; video_info has the fields width,
\* height, fps and total_frames and no others.
C8_SchemaAsStated ==
  pc = "done" =>
    /\ SchemaOutsideVideoInfo(SavedDoc)
    /\ DOMAIN SavedDoc.video_info = {"width", "height", "fps", "total_frames"}

\* C8 amended: as stated, except that video_info has a fifth field,
\* duration_seconds, equal to the number of frame records divided by the
\* fps (30 when the source reports none).
C8_Schema ==
  pc = "done" =>
    /\ SchemaOutsideVideoInfo(SavedDoc)
    /\ DOMAIN SavedDoc.video_info =
         {"width", "height", "fps", "total_frames", "duration_seconds"}
    /\ RatEq(SavedDoc.video_info.duration_seconds,
             <<Len(SavedDoc.frames), EffectiveFps>>)

C8_Witness ==
  /\ pc = "done"
  /\ Len(SavedDoc.frames) = 1
  /\ video_info.fps = 25
  /\ SavedDoc.video_info.duration_seconds = <<1, 25>>

\* arg is exactly the detections of d whose class id is 0, in their order.
IsPersonsOf(arg, d) ==
  LET keep == {i \in 1..DetLen(d) : d.class_id.val[i] = 0}
  IN /\ DetLen(arg) = Cardinality(keep)
     /\ \E f \in [1..Cardinality(keep) -> keep] :
          /\ \A j, k \in 1..Cardinality(keep) : j < k => f[j] < f[k]
          /\ \A k \in 1..Cardinality(keep) :
               /\ arg.xyxy[k] = d.xyxy[f[k]]
               /\ arg.confidence.val[k] = d.confidence.val[f[k]]
               /\ arg.class_id.val[k] = 0
     /\ arg.confidence.present
     /\ arg.class_id.present
     /\ Len(arg.confidence.val) = Cardinality(keep)
     /\ Len(arg.class_id.val) = Cardinality(keep)
     /\ arg.tracker_id = d.tracker_id

\* C9: for every decoded frame the tracker is called exactly once, after
\* the detector and the filter and before the frame's record is built; it
\* receives the detector's class-0 detections in their order when class_id is
\* present, and the detector's output as it is when class_id is absent.  A
\* frame whose detections all have class 1 hands the tracker an empty set,
\* and when the tracker adds nothing the frame's record holds four empty
\* sequences.
C9_TrackerInput ==
  /\ pc = "frame" =>
       detector_calls = frames_decoded - 1 /\ tracker_calls = frames_decoded - 1
  /\ pc \in {"detected", "filtered"} =>
       detector_calls = frames_decoded /\ tracker_calls = frames_decoded - 1
  /\ pc \in {"tracked", "progress", "loop", "assemble", "done"} =>
       detector_calls = frames_decoded /\ tracker_calls = frames_decoded
  /\ pc = "tracked" => Len(results) = frames_decoded - 1
  /\ pc \in {"tracked", "progress"} =>
       /\ raw.class_id.present => IsPersonsOf(tracker_arg, raw)
       /\ ~raw.class_id.present => tracker_arg = raw
       /\ (raw.class_id.present /\ \A i \in 1..DetLen(raw) : raw.class_id.val[i] = 1)
            => DetLen(tracker_arg) = 0
  /\ pc = "progress" =>
       /\ Len(results) = frames_decoded
       /\ results[Len(results)].frame_index = frame_idx
       /\ (/\ raw.class_id.present
           /\ \A i \in 1..DetLen(raw) : raw.class_id.val[i] = 1
           /\ DetLen(detections) <= DetLen(tracker_arg))
            => results[Len(results)].detections = EmptyResult

C9_Witness ==
  /\ pc = "progress"
  /\ DetLen(raw) = 2
  /\ raw.class_id.present
  /\ raw.class_id.val = <<1, 1>>
  /\ DetLen(tracker_arg) = 0
  /\ results[Len(results)].detections = EmptyResult

\* C10: the output path is written at most once, only after the frame
\* sequence is exhausted and every record is appended; until then, and so
\* after a failure of the decoder, the detector or the tracker at any frame,
\* the output path holds what it held before the run.
C10_SingleFinalWrite ==
  /\ writes <= 1
  /\ pc # "done" => (writes = 0 /\ output_file = prior_output)
  /\ pc = "done" =>
       /\ writes = 1
       /\ Len(results) = frames_decoded
       /\ SavedDoc.frames = results

C10_Witness ==
  /\ pc = "failed"
  /\ Len(results) = 1
  /\ frames_decoded = 2
  /\ prior_output.kind = "old"
  /\ output_file = prior_output

====
